---- MODULE Spec2Model ----
(***************************************************************************)
(* Model of homework.py: the credential gate, the fetcher, the response    *)
(* validator, the status translator, the notifier and main's poll loop.    *)
(* The Russian string literals of the source are rendered in ASCII         *)
(* English; every literal keeps its place and its interpolated fields.     *)
(***************************************************************************)
EXTENDS Integers, Sequences, FiniteSets, TLC

VARIABLES PRACTICUM_TOKEN, TELEGRAM_TOKEN, TELEGRAM_CHAT_ID,
          pc, exit_code, timestamp, last_error,
          response, idx, error, cur, prev, call

vars == <<PRACTICUM_TOKEN, TELEGRAM_TOKEN, TELEGRAM_CHAT_ID,
          pc, exit_code, timestamp, last_error,
          response, idx, error, cur, prev, call>>

(* ------------------------------ bounds --------------------------------- *)

\* longest homeworks list a response carries
MaxItems == 2
\* largest integer the clock and current_date take
MaxDate == 1

(* --------------------------- program constants ------------------------- *)

RETRY_PERIOD == 600
HTTP_OK == 200
ENDPOINT == "https://practicum.yandex.ru/api/user_api/homework_statuses/"

HOMEWORK_VERDICTS ==
    [approved  |-> "Work checked: the reviewer liked everything. Hooray!",
     reviewing |-> "Work taken for review by the reviewer.",
     rejected  |-> "Work checked: the reviewer has remarks."]

(* ------------------------- Python values ------------------------------- *)

\* os.getenv: None (absent) is <<>>, a string s is <<s>>
EnvValues == {<<>>, <<"">>, <<"secret">>}

\* `v is None` in place of `not v`: an empty string passes
EnvFalsy_NoneOnly(v) == v = <<>>

\* `not v` for an environment value: None and '' are falsy
EnvFalsy(v) == v = <<>> \/ v[1] = ""

\* a decoded JSON scalar or list: t is its Python type
JInt(n) == [t |-> "int", n |-> n, s |-> ""]
JStr(s) == [t |-> "str", n |-> 0, s |-> s]
JNull == [t |-> "NoneType", n |-> 0, s |-> ""]
\* a list, s its repr
JList(s) == [t |-> "list", n |-> 0, s |-> s]

\* str(v), as an f-string interpolates it
PyStr(v) ==
    CASE v.t = "int" -> ToString(v.n)
      [] v.t = "str" -> v.s
      [] v.t = "NoneType" -> "None"
      [] OTHER -> v.s

\* bool(v)
Truthy(v) ==
    CASE v.t = "int" -> v.n # 0
      [] v.t = "str" -> v.s # ""
      [] v.t = "NoneType" -> FALSE
      [] OTHER -> v.s # "[]"

\* repr(s) of a str: double quotes when s holds a single quote and no
\* double quote, single quotes otherwise (no literal here holds both)
PyRepr(s, hasSingle, hasDouble) ==
    IF hasSingle /\ ~hasDouble THEN "\"" \o s \o "\"" ELSE "'" \o s \o "'"

\* an exception: its class and str(exception)
Exc(type, text) == [type |-> type, text |-> text]
NoExc == Exc("", "")

\* str(KeyError(msg)) is repr(msg)
KeyErrorExc(msg, hasSingle, hasDouble) ==
    Exc("KeyError", PyRepr(msg, hasSingle, hasDouble))

\* the result of a call: a value, or an exception propagating
Return(v) == [raised |-> FALSE, value |-> v, exc |-> NoExc]
Raise(e) == [raised |-> TRUE, value |-> "", exc |-> e]

(* ---------------------------- check_tokens ----------------------------- *)

\* the list msg built by check_tokens
TokenMsgs(p, t, c) ==
    (IF EnvFalsy(p)
        THEN <<"Missing PRACTICUM_TOKEN: token of the Practicum.Homework API">>
        ELSE <<>>)
    \o (IF EnvFalsy(t)
        THEN <<"Missing TELEGRAM_TOKEN: telegram bot token">> ELSE <<>>)
    \o (IF EnvFalsy(c)
        THEN <<"Missing TELEGRAM_CHAT_ID: telegram chat id">> ELSE <<>>)

RECURSIVE Join(_, _)
\* sep.join(lines)
Join(sep, lines) ==
    IF lines = <<>> THEN ""
    ELSE IF Len(lines) = 1 THEN lines[1]
    ELSE lines[1] \o sep \o Join(sep, Tail(lines))

check_tokens(p, t, c) ==
    LET msg == TokenMsgs(p, t, c)
    IN  IF msg # <<>>
           THEN Raise(Exc("TokenNotFoundError", Join("\n", msg)))
           ELSE Return("")

(* ---------------------------- send_message ---------------------------- *)

\* what bot.send_message does with one call: returns, or raises an
\* exception of the telebot API family, of the requests family, or of
\* neither family
DeliveryOutcomes ==
    {NoExc,
     Exc("ApiException", "A request to the Telegram API was unsuccessful"),
     Exc("RequestException", "Connection aborted"),
     Exc("TypeError", "unexpected reply")}

\* the classes the except clause of send_message names
SendMessageCaught == {"ApiException", "RequestException"}

\* an except clause that names ApiException alone
send_message_ApiOnly(message, d) ==
    IF d = NoExc
       THEN [exc |-> NoExc, level |-> "debug",
             line |-> "Bot sent the message: " \o message]
       ELSE IF d.type = "ApiException"
               THEN [exc |-> NoExc, level |-> "error",
                     line |-> "Failure sending the message to Telegram: "
                              \o d.text]
               ELSE [exc |-> d, level |-> "", line |-> ""]

\* send_message(bot, message) when bot.send_message ends with outcome d:
\* the exception that propagates (NoExc when it returns) and the log line
send_message(message, d) ==
    IF d = NoExc
       THEN [exc |-> NoExc, level |-> "debug",
             line |-> "Bot sent the message: " \o message]
       ELSE IF d.type \in SendMessageCaught
               THEN [exc |-> NoExc, level |-> "error",
                     line |-> "Failure sending the message to Telegram: "
                              \o d.text]
               ELSE [exc |-> d, level |-> "", line |-> ""]

(* --------------------------- get_api_answer ---------------------------- *)

\* a decoded body: isdict says whether it is a dict; has is the set of its
\* keys among those read by the program; homeworks is the value under
\* 'homeworks' (islist, and its items when it is a list), current_date the
\* value under 'current_date'
Payload(isdict, has, islist, items, date) ==
    [isdict |-> isdict, has |-> has,
     homeworks |-> [islist |-> islist, items |-> items],
     current_date |-> date]
NoPayload == Payload(FALSE, {}, FALSE, <<>>, JNull)

\* what requests.get does: raises a RequestException, or returns a response
\* with a status code whose body decodes as JSON (to body) or does not
TransportRaise(text) ==
    [raises |-> TRUE, text |-> text, status_code |-> 0, json |-> FALSE,
     body |-> NoPayload]
TransportResponse(code, json, body) ==
    [raises |-> FALSE, text |-> "", status_code |-> code, json |-> json,
     body |-> body]

\* get_api_answer without the test of the status code
get_api_answer_NoStatusCheck(ts, tr) ==
    IF tr.raises
       THEN Raise(Exc("EndpointUnavailableError",
                      "Failure requesting the endpoint: " \o tr.text))
       ELSE IF ~tr.json
               THEN Raise(Exc("JSONDecodeError",
                              "Expecting value: line 1 column 1 (char 0)"))
               ELSE Return(tr.body)

get_api_answer(ts, tr) ==
    IF tr.raises
       THEN Raise(Exc("EndpointUnavailableError",
                      "Failure requesting the endpoint: " \o tr.text))
       ELSE IF tr.status_code # HTTP_OK
               THEN Raise(Exc("EndpointUnavailableError",
                              "Endpoint " \o ENDPOINT \o " is unavailable. "
                              \o "API response code: "
                              \o ToString(tr.status_code)))
               ELSE IF ~tr.json
                       THEN Raise(Exc("JSONDecodeError",
                                      "Expecting value: line 1 column 1 (char 0)"))
                       ELSE Return(tr.body)

(* --------------------------- check_response ---------------------------- *)

\* check_response with the test of the type of homeworks moved before the
\* test of current_date
check_response_TypeFirst(r) ==
    IF ~r.isdict
       THEN Raise(Exc("TypeError", "API response is not a dict"))
    ELSE IF "homeworks" \notin r.has
       THEN Raise(KeyErrorExc("API response lacks the key \"homeworks\"",
                              FALSE, TRUE))
    ELSE IF ~r.homeworks.islist
       THEN Raise(Exc("TypeError",
                      "Value under the key \"homeworks\" is not a list"))
    ELSE IF "current_date" \notin r.has
       THEN Raise(KeyErrorExc("API response lacks the key \"current_date\"",
                              FALSE, TRUE))
    ELSE Return("")

check_response(r) ==
    IF ~r.isdict
       THEN Raise(Exc("TypeError", "API response is not a dict"))
    ELSE IF "homeworks" \notin r.has
       THEN Raise(KeyErrorExc("API response lacks the key \"homeworks\"",
                              FALSE, TRUE))
    ELSE IF "current_date" \notin r.has
       THEN Raise(KeyErrorExc("API response lacks the key \"current_date\"",
                              FALSE, TRUE))
    ELSE IF ~r.homeworks.islist
       THEN Raise(Exc("TypeError",
                      "Value under the key \"homeworks\" is not a list"))
    ELSE Return("")

(* ---------------------------- parse_status ----------------------------- *)

required_keys ==
    {"id", "status", "homework_name", "reviewer_comment", "date_updated",
     "lesson_name"}

\* the order in which the set `missing` is iterated when it is formatted
KeyOrder ==
    <<"id", "status", "homework_name", "reviewer_comment", "date_updated",
      "lesson_name">>

RECURSIVE Filter(_, _)
\* the elements of seq that are in set, in seq's order
Filter(seq, set) ==
    IF seq = <<>> THEN <<>>
    ELSE (IF Head(seq) \in set THEN <<Head(seq)>> ELSE <<>>)
         \o Filter(Tail(seq), set)

RECURSIVE Quoted(_)
Quoted(seq) ==
    IF seq = <<>> THEN <<>> ELSE <<"'" \o Head(seq) \o "'">> \o Quoted(Tail(seq))

\* repr of a non-empty set of str
SetRepr(set) == "{" \o Join(", ", Quoted(Filter(KeyOrder, set))) \o "}"

MissingKeys_All(homework) == required_keys

\* missing = required_keys - homework.keys()
MissingKeys(homework) == required_keys \ DOMAIN homework

NoNameMsg_NoId(homework) == "Name of the homework is not given"

\* the text of the ValueError for a falsy homework_name
NoNameMsg(homework) ==
    "Name of the homework with id=" \o PyStr(homework["id"])
    \o " is not given"

\* the text of the ValueError for a status outside HOMEWORK_VERDICTS
BadStatusMsg(status) ==
    "Unexpected homework status \"" \o PyStr(status) \o "\""

StatusMessage_LessonName(homework, verdict) ==
    "Status of the check of the work \""
    \o PyStr(homework["lesson_name"]) \o "\" changed. " \o verdict

\* the returned f-string
StatusMessage(homework, verdict) ==
    "Status of the check of the work \""
    \o PyStr(homework["homework_name"]) \o "\" changed. " \o verdict

\* `status not in HOMEWORK_VERDICTS` raises TypeError for an unhashable key
parse_status(homework) ==
    LET missing == MissingKeys(homework)
    IN  IF missing # {}
           THEN Raise(KeyErrorExc("homework lacks the keys: "
                                  \o SetRepr(missing), TRUE, FALSE))
        ELSE IF ~Truthy(homework["homework_name"])
           THEN Raise(Exc("ValueError", NoNameMsg(homework)))
        ELSE IF homework["status"].t = "list"
           THEN Raise(Exc("TypeError", "unhashable type: 'list'"))
        ELSE IF ~(homework["status"].t = "str"
                  /\ homework["status"].s \in DOMAIN HOMEWORK_VERDICTS)
           THEN Raise(Exc("ValueError", BadStatusMsg(homework["status"])))
        ELSE LET verdict == HOMEWORK_VERDICTS[homework["status"].s]
             IN  Return(StatusMessage(homework, verdict))

(* ------------------------- inputs of the loop -------------------------- *)

Item(id, status, name) ==
    [id |-> JInt(id), status |-> JStr(status), homework_name |-> JStr(name),
     reviewer_comment |-> JStr(""), date_updated |-> JStr(""),
     lesson_name |-> JStr("")]

\* the tracked items the remote source returns in the loop: two that
\* translate and one with a status outside the verdict table
LoopItems ==
    {Item(1, "approved", "Sprint 4"), Item(2, "reviewing", "Sprint 5"),
     Item(3, "lost", "Sprint 6")}

RECURSIVE SeqsUpTo(_, _)
\* the sequences over set of length at most n
SeqsUpTo(set, n) ==
    IF n = 0 THEN {<<>>}
    ELSE LET shorter == SeqsUpTo(set, n - 1)
         IN  shorter \cup {Append(q, x) : q \in shorter, x \in set}

\* current_date as the remote source may send it: an integer, or null
Dates == {JInt(n) : n \in 0..MaxDate} \cup {JNull}

BothKeys == {"homeworks", "current_date"}

WellFormed ==
    {Payload(TRUE, BothKeys, TRUE, h, d) :
        h \in SeqsUpTo(LoopItems, MaxItems), d \in Dates}

Malformed ==
    {Payload(FALSE, {}, FALSE, <<>>, JNull),
     Payload(TRUE, {}, FALSE, <<>>, JNull),
     Payload(TRUE, {"current_date"}, FALSE, <<>>, JInt(MaxDate)),
     Payload(TRUE, {"homeworks"}, TRUE, <<>>, JNull),
     Payload(TRUE, BothKeys, FALSE, <<>>, JInt(MaxDate))}

StatusCodes == {HTTP_OK, 404, 503}

TransportOutcomes ==
    {TransportRaise("Connection timed out")}
    \cup {TransportResponse(c, FALSE, NoPayload) : c \in StatusCodes}
    \cup {TransportResponse(HTTP_OK, TRUE, p) : p \in WellFormed \cup Malformed}

(* ------------------------------- main ---------------------------------- *)

\* how a send_message call ended, given bot.send_message's outcome d
SendOut(message, d) ==
    IF send_message(message, d).exc # NoExc THEN "raised"
    ELSE IF d = NoExc THEN "delivered" ELSE "swallowed"

\* one call made in a cycle: op the function, k the position of the item
\* (0 outside the item loop), arg the message translated or sent (for
\* get_api_answer the status code received), why the kind of notification,
\* out how the call ended, exc the class of the exception raised in it,
\* log the level of the line send_message logged
Event(op, k, arg, why, out, exc) ==
    [op |-> op, k |-> k, arg |-> arg, why |-> why, out |-> out, exc |-> exc,
     log |-> ""]

\* a send_message call that met bot.send_message's outcome d
SendEvent(k, message, why, d) ==
    [Event("send_message", k, message, why, SendOut(message, d), d.type)
        EXCEPT !.log = send_message(message, d).level]

\* the classes of the model's exceptions that derive from Exception
ExceptionClasses ==
    {"EndpointUnavailableError", "JSONDecodeError", "TypeError", "KeyError",
     "ValueError", "ApiException", "RequestException"}

\* `except EndpointUnavailableError` in place of `except Exception`
Landing_Narrow(e) ==
    IF e.type = "EndpointUnavailableError" THEN "handler" ELSE "crashed"

\* main, line 179: where an exception raised in the try block lands
Landing(e) == IF e.type \in ExceptionClasses THEN "handler" ELSE "crashed"

\* the record of the cycle in progress: the cursor and last_error it began
\* with, whether check_response accepted its response, its calls, and the
\* failure message once its except clause ran
NewCycle(ts, le) ==
    [from_date |-> ts, le_before |-> le, validated |-> FALSE,
     trace |-> <<>>, failed |-> FALSE, message |-> ""]

\* the record of the cycle before it; notes counts its failure
\* notifications, swallowed tells that the delivery of one failed inside
\* send_message, slept is the sleep that ended it
NoPrev == [exists |-> FALSE, failed |-> FALSE, message |-> "", notes |-> 0,
           swallowed |-> FALSE, slept |-> 0]

\* the failure notifications among the calls of a cycle
FailureNotes(trace) ==
    Cardinality({i \in 1..Len(trace) :
                    trace[i].op = "send_message" /\ trace[i].why = "failure"})

\* the failure notification of a cycle met an exception that send_message
\* caught
FailureSwallowed(trace) ==
    \E i \in 1..Len(trace) :
        /\ trace[i].op = "send_message" /\ trace[i].why = "failure"
        /\ trace[i].out = "swallowed"

\* a call of one function on its own: given the argument as supplied, arg
\* the argument object as the call leaves it, result what the call returns
\* or raises
NewCall(fn, x) ==
    [fn |-> fn, given |-> x, arg |-> x, done |-> FALSE, result |-> Return("")]
NoCall == NewCall("", <<>>)

Init ==
    /\ PRACTICUM_TOKEN \in EnvValues
    /\ TELEGRAM_TOKEN \in EnvValues
    /\ TELEGRAM_CHAT_ID \in EnvValues
    /\ pc = "start"
    /\ exit_code = 0
    /\ timestamp = JInt(0)
    /\ last_error = ""
    /\ response = NoPayload
    /\ idx = 0
    /\ error = NoExc
    /\ cur = NewCycle(JInt(0), "")
    /\ prev = NoPrev
    /\ call = NoCall

\* main, lines 153-162: the credential gate, then the loop's initial state
Startup ==
    /\ pc = "start"
    /\ IF check_tokens(PRACTICUM_TOKEN, TELEGRAM_TOKEN, TELEGRAM_CHAT_ID).raised
          THEN /\ pc' = "exited"
               /\ exit_code' = 1
               /\ error' = check_tokens(PRACTICUM_TOKEN, TELEGRAM_TOKEN,
                                        TELEGRAM_CHAT_ID).exc
               /\ UNCHANGED <<timestamp, last_error, cur>>
          ELSE /\ \E now \in 0..MaxDate :
                     /\ timestamp' = JInt(now)
                     /\ cur' = NewCycle(JInt(now), "")
               /\ last_error' = ""
               /\ pc' = "fetch"
               /\ UNCHANGED <<exit_code, error>>
    /\ UNCHANGED <<PRACTICUM_TOKEN, TELEGRAM_TOKEN, TELEGRAM_CHAT_ID, call,
                   response, idx, prev>>

\* the status code of the response received, '' when none was
StatusArg(tr) == IF tr.raises THEN "" ELSE ToString(tr.status_code)

\* main, line 166
GetApiAnswer ==
    /\ pc = "fetch"
    /\ \E tr \in TransportOutcomes :
          LET r == get_api_answer(timestamp, tr)
          IN  IF r.raised
                 THEN /\ error' = r.exc
                      /\ pc' = Landing(r.exc)
                      /\ cur' = [cur EXCEPT !.trace = Append(@,
                                   Event("get_api_answer", 0, StatusArg(tr), "",
                                         "raised", r.exc.type))]
                      /\ UNCHANGED response
                 ELSE /\ response' = r.value
                      /\ pc' = "check"
                      /\ cur' = [cur EXCEPT !.trace = Append(@,
                                   Event("get_api_answer", 0, StatusArg(tr), "",
                                         "returned", ""))]
                      /\ UNCHANGED error
    /\ UNCHANGED <<PRACTICUM_TOKEN, TELEGRAM_TOKEN, TELEGRAM_CHAT_ID, call,
                   exit_code, timestamp, last_error, idx, prev>>

\* the cursor advanced only when there are homeworks
CheckResponse_SkipEmpty ==
    /\ pc = "check"
    /\ LET r == check_response(response)
       IN  IF r.raised
              THEN /\ error' = r.exc
                   /\ pc' = Landing(r.exc)
                   /\ cur' = [cur EXCEPT !.trace = Append(@,
                                Event("check_response", 0, "", "", "raised",
                                      r.exc.type))]
                   /\ UNCHANGED <<timestamp, idx>>
              ELSE /\ timestamp' = IF response.homeworks.items = <<>>
                                      THEN timestamp
                                      ELSE response.current_date
                   /\ idx' = 1
                   /\ pc' = IF response.homeworks.items = <<>>
                               THEN "sleep" ELSE "items"
                   /\ cur' = [cur EXCEPT !.validated = TRUE,
                                !.trace = Append(@,
                                Event("check_response", 0, "", "", "returned",
                                      ""))]
                   /\ UNCHANGED error
    /\ UNCHANGED <<PRACTICUM_TOKEN, TELEGRAM_TOKEN, TELEGRAM_CHAT_ID, call,
                   exit_code, last_error, response, prev>>

\* the cursor advanced before the response is validated
CheckResponse_Early ==
    /\ pc = "check"
    /\ LET r == check_response(response)
       IN  IF r.raised
              THEN /\ error' = r.exc
                   /\ pc' = Landing(r.exc)
                   /\ cur' = [cur EXCEPT !.trace = Append(@,
                                Event("check_response", 0, "", "", "raised",
                                      r.exc.type))]
                   /\ timestamp' = IF response.isdict
                                         /\ "current_date" \in response.has
                                      THEN response.current_date
                                      ELSE timestamp
                   /\ UNCHANGED idx
              ELSE /\ timestamp' = response.current_date
                   /\ idx' = 1
                   /\ pc' = IF response.homeworks.items = <<>>
                               THEN "sleep" ELSE "items"
                   /\ cur' = [cur EXCEPT !.validated = TRUE,
                                !.trace = Append(@,
                                Event("check_response", 0, "", "", "returned",
                                      ""))]
                   /\ UNCHANGED error
    /\ UNCHANGED <<PRACTICUM_TOKEN, TELEGRAM_TOKEN, TELEGRAM_CHAT_ID, call,
                   exit_code, last_error, response, prev>>

\* main, lines 167-173
CheckResponse ==
    /\ pc = "check"
    /\ LET r == check_response(response)
       IN  IF r.raised
              THEN /\ error' = r.exc
                   /\ pc' = Landing(r.exc)
                   /\ cur' = [cur EXCEPT !.trace = Append(@,
                                Event("check_response", 0, "", "", "raised",
                                      r.exc.type))]
                   /\ UNCHANGED <<timestamp, idx>>
              ELSE /\ timestamp' = response.current_date
                   /\ idx' = 1
                   /\ pc' = IF response.homeworks.items = <<>>
                               THEN "sleep" ELSE "items"
                   /\ cur' = [cur EXCEPT !.validated = TRUE,
                                !.trace = Append(@,
                                Event("check_response", 0, "", "", "returned",
                                      ""))]
                   /\ UNCHANGED error
    /\ UNCHANGED <<PRACTICUM_TOKEN, TELEGRAM_TOKEN, TELEGRAM_CHAT_ID, call,
                   exit_code, last_error, response, prev>>

\* a translation failure caught per item: the loop goes on to the next
ProcessHomework_Isolated ==
    /\ pc = "items"
    /\ LET homeworks == response.homeworks.items
           r == parse_status(homeworks[idx])
       IN  IF r.raised
              THEN /\ idx' = idx + 1
                   /\ pc' = IF idx = Len(homeworks) THEN "sleep" ELSE "items"
                   /\ cur' = [cur EXCEPT !.trace = Append(@,
                                Event("parse_status", idx, "", "", "raised",
                                      r.exc.type))]
                   /\ UNCHANGED error
              ELSE \E d \in DeliveryOutcomes :
                      LET s == send_message(r.value, d)
                          calls == cur.trace
                              \o <<Event("parse_status", idx, r.value, "",
                                         "returned", ""),
                                   SendEvent(idx, r.value, "status", d)>>
                      IN  /\ cur' = [cur EXCEPT !.trace = calls]
                          /\ IF s.exc # NoExc
                                THEN /\ error' = s.exc
                                     /\ pc' = Landing(s.exc)
                                     /\ UNCHANGED idx
                                ELSE /\ idx' = idx + 1
                                     /\ pc' = IF idx = Len(homeworks)
                                                 THEN "sleep" ELSE "items"
                                     /\ UNCHANGED error
    /\ UNCHANGED <<PRACTICUM_TOKEN, TELEGRAM_TOKEN, TELEGRAM_CHAT_ID, call,
                   exit_code, timestamp, last_error, response, prev>>

\* the item loop left at the first delivery that fails
ProcessHomework_StopOnSwallow ==
    /\ pc = "items"
    /\ LET homeworks == response.homeworks.items
           r == parse_status(homeworks[idx])
       IN  IF r.raised
              THEN /\ error' = r.exc
                   /\ pc' = Landing(r.exc)
                   /\ cur' = [cur EXCEPT !.trace = Append(@,
                                Event("parse_status", idx, "", "", "raised",
                                      r.exc.type))]
                   /\ UNCHANGED idx
              ELSE \E d \in DeliveryOutcomes :
                      LET s == send_message(r.value, d)
                          calls == cur.trace
                              \o <<Event("parse_status", idx, r.value, "",
                                         "returned", ""),
                                   SendEvent(idx, r.value, "status", d)>>
                      IN  /\ cur' = [cur EXCEPT !.trace = calls]
                          /\ IF s.exc # NoExc
                                THEN /\ error' = s.exc
                                     /\ pc' = Landing(s.exc)
                                     /\ UNCHANGED idx
                                ELSE /\ idx' = idx + 1
                                     /\ pc' = IF idx = Len(homeworks)
                                                    \/ d # NoExc
                                                 THEN "sleep" ELSE "items"
                                     /\ UNCHANGED error
    /\ UNCHANGED <<PRACTICUM_TOKEN, TELEGRAM_TOKEN, TELEGRAM_CHAT_ID, call,
                   exit_code, timestamp, last_error, response, prev>>

\* main, lines 175-177: one iteration of the loop over homeworks
ProcessHomework ==
    /\ pc = "items"
    /\ LET homeworks == response.homeworks.items
           r == parse_status(homeworks[idx])
       IN  IF r.raised
              THEN /\ error' = r.exc
                   /\ pc' = Landing(r.exc)
                   /\ cur' = [cur EXCEPT !.trace = Append(@,
                                Event("parse_status", idx, "", "", "raised",
                                      r.exc.type))]
                   /\ UNCHANGED idx
              ELSE \E d \in DeliveryOutcomes :
                      LET s == send_message(r.value, d)
                          calls == cur.trace
                              \o <<Event("parse_status", idx, r.value, "",
                                         "returned", ""),
                                   SendEvent(idx, r.value, "status", d)>>
                      IN  /\ cur' = [cur EXCEPT !.trace = calls]
                          /\ IF s.exc # NoExc
                                THEN /\ error' = s.exc
                                     /\ pc' = Landing(s.exc)
                                     /\ UNCHANGED idx
                                ELSE /\ idx' = idx + 1
                                     /\ pc' = IF idx = Len(homeworks)
                                                 THEN "sleep" ELSE "items"
                                     /\ UNCHANGED error
    /\ UNCHANGED <<PRACTICUM_TOKEN, TELEGRAM_TOKEN, TELEGRAM_CHAT_ID, call,
                   exit_code, timestamp, last_error, response, prev>>

\* main, line 180
FailureMessage(e) == "Failure in the program's work: " \o e.text

\* a handler that notifies every failure
Differs_Always(le, message) == TRUE

\* main, line 182
Differs(le, message) == le # message

\* a handler without the assignment of line 184
HandleFailure_Forgets ==
    /\ pc = "handler"
    /\ LET message == FailureMessage(error)
       IN  IF Differs(last_error, message)
              THEN \E d \in DeliveryOutcomes :
                      LET s == send_message(message, d)
                      IN  /\ cur' = [cur EXCEPT !.failed = TRUE,
                                       !.message = message,
                                       !.trace = Append(@,
                                          SendEvent(0, message, "failure", d))]
                          /\ IF s.exc # NoExc
                                THEN /\ pc' = "crashed"
                                     /\ error' = s.exc
                                     /\ UNCHANGED last_error
                                ELSE /\ pc' = "sleep"
                                     /\ UNCHANGED <<last_error, error>>
              ELSE /\ cur' = [cur EXCEPT !.failed = TRUE, !.message = message]
                   /\ pc' = "sleep"
                   /\ UNCHANGED <<last_error, error>>
    /\ UNCHANGED <<PRACTICUM_TOKEN, TELEGRAM_TOKEN, TELEGRAM_CHAT_ID, call,
                   exit_code, timestamp, response, idx, prev>>

\* a handler that remembers only the messages it delivered
HandleFailure_RememberDelivered ==
    /\ pc = "handler"
    /\ LET message == FailureMessage(error)
       IN  IF Differs(last_error, message)
              THEN \E d \in DeliveryOutcomes :
                      LET s == send_message(message, d)
                      IN  /\ cur' = [cur EXCEPT !.failed = TRUE,
                                       !.message = message,
                                       !.trace = Append(@,
                                          SendEvent(0, message, "failure", d))]
                          /\ IF s.exc # NoExc
                                THEN /\ pc' = "crashed"
                                     /\ error' = s.exc
                                     /\ UNCHANGED last_error
                                ELSE /\ pc' = "sleep"
                                     /\ last_error' = IF d = NoExc
                                                         THEN message
                                                         ELSE last_error
                                     /\ UNCHANGED error
              ELSE /\ cur' = [cur EXCEPT !.failed = TRUE, !.message = message]
                   /\ pc' = "sleep"
                   /\ UNCHANGED <<last_error, error>>
    /\ UNCHANGED <<PRACTICUM_TOKEN, TELEGRAM_TOKEN, TELEGRAM_CHAT_ID, call,
                   exit_code, timestamp, response, idx, prev>>

\* main, lines 179-184: the except clause of the cycle; an exception that
\* send_message lets through leaves main
HandleFailure ==
    /\ pc = "handler"
    /\ LET message == FailureMessage(error)
       IN  IF Differs(last_error, message)
              THEN \E d \in DeliveryOutcomes :
                      LET s == send_message(message, d)
                      IN  /\ cur' = [cur EXCEPT !.failed = TRUE,
                                       !.message = message,
                                       !.trace = Append(@,
                                          SendEvent(0, message, "failure", d))]
                          /\ IF s.exc # NoExc
                                THEN /\ pc' = "crashed"
                                     /\ error' = s.exc
                                     /\ UNCHANGED last_error
                                ELSE /\ pc' = "sleep"
                                     /\ last_error' = message
                                     /\ UNCHANGED error
              ELSE /\ cur' = [cur EXCEPT !.failed = TRUE, !.message = message]
                   /\ pc' = "sleep"
                   /\ UNCHANGED <<last_error, error>>
    /\ UNCHANGED <<PRACTICUM_TOKEN, TELEGRAM_TOKEN, TELEGRAM_CHAT_ID, call,
                   exit_code, timestamp, response, idx, prev>>

\* last_error cleared by a successful cycle
Sleep_ResetOnSuccess ==
    /\ pc = "sleep"
    /\ pc' = "fetch"
    /\ prev' = [exists |-> TRUE, failed |-> cur.failed,
                message |-> cur.message, notes |-> FailureNotes(cur.trace),
                swallowed |-> FailureSwallowed(cur.trace),
                slept |-> RETRY_PERIOD]
    /\ cur' = NewCycle(timestamp, IF cur.failed THEN last_error ELSE "")
    /\ response' = NoPayload
    /\ idx' = 0
    /\ error' = NoExc
    /\ last_error' = IF cur.failed THEN last_error ELSE ""
    /\ UNCHANGED <<PRACTICUM_TOKEN, TELEGRAM_TOKEN, TELEGRAM_CHAT_ID, call,
                   exit_code, timestamp>>

\* main, line 186, and the return to the head of the while loop
Sleep ==
    /\ pc = "sleep"
    /\ pc' = "fetch"
    /\ prev' = [exists |-> TRUE, failed |-> cur.failed,
                message |-> cur.message, notes |-> FailureNotes(cur.trace),
                swallowed |-> FailureSwallowed(cur.trace),
                slept |-> RETRY_PERIOD]
    /\ cur' = NewCycle(timestamp, last_error)
    /\ response' = NoPayload
    /\ idx' = 0
    /\ error' = NoExc
    /\ UNCHANGED <<PRACTICUM_TOKEN, TELEGRAM_TOKEN, TELEGRAM_CHAT_ID, call,
                   exit_code, timestamp, last_error>>

Next ==
    \/ Startup
    \/ GetApiAnswer
    \/ CheckResponse
    \/ ProcessHomework
    \/ HandleFailure
    \/ Sleep

Spec == Init /\ [][Next]_vars

\* the loop is one thread that runs whenever it can
FairSpec == Spec /\ WF_vars(Next)

(* ------------------- the functions called on their own ---------------- *)

\* the state of main's variables while one function is called on its own
Idle ==
    /\ PRACTICUM_TOKEN = <<"secret">>
    /\ TELEGRAM_TOKEN = <<"secret">>
    /\ TELEGRAM_CHAT_ID = <<"secret">>
    /\ pc = "call"
    /\ exit_code = 0
    /\ timestamp = JInt(0)
    /\ last_error = ""
    /\ response = NoPayload
    /\ idx = 0
    /\ error = NoExc
    /\ cur = NewCycle(JInt(0), "")
    /\ prev = NoPrev

\* the decoded bodies check_response is called with: a dict or not, with
\* or without each of the two keys, homeworks a list or not, empty or not,
\* current_date an integer, null or a string
AnyPayloads ==
    {Payload(isdict, has, islist, items, date) :
        isdict \in BOOLEAN, has \in SUBSET BothKeys, islist \in BOOLEAN,
        items \in {<<>>, <<Item(1, "approved", "Sprint 4")>>},
        date \in {JInt(0), JNull, JStr("soon")}}

ValidateInit ==
    /\ Idle
    /\ call \in {NewCall("check_response", p) : p \in AnyPayloads}

\* check_response(response): the function reads its argument and assigns
\* nothing
CallCheckResponse ==
    /\ pc = "call"
    /\ call.fn = "check_response"
    /\ ~call.done
    /\ call' = [call EXCEPT !.done = TRUE,
                            !.result = check_response(call.arg)]
    /\ UNCHANGED <<PRACTICUM_TOKEN, TELEGRAM_TOKEN, TELEGRAM_CHAT_ID,
                   pc, exit_code, timestamp, last_error, response, idx,
                   error, cur, prev>>

ValidateSpec == ValidateInit /\ [][CallCheckResponse]_vars

\* a key that an item does not hold
Absent == [t |-> "absent", n |-> 0, s |-> ""]

\* the dict that holds the keys whose choice is not Absent
MkItem(id, status, name, comment, date, lesson) ==
    LET full == [id |-> id, status |-> status, homework_name |-> name,
                 reviewer_comment |-> comment, date_updated |-> date,
                 lesson_name |-> lesson]
    IN  [k \in {x \in required_keys : full[x] # Absent} |-> full[k]]

\* the items parse_status is called with: every subset of the six keys,
\* two ids, known and unknown and unhashable and null statuses, two names
\* and the empty and the null name, two reviewer comments
AnyItems ==
    {MkItem(id, status, name, comment, date, lesson) :
        id \in {Absent, JInt(1), JInt(2)},
        status \in {Absent, JStr("approved"), JStr("reviewing"),
                    JStr("rejected"), JStr("lost"), JList("[]"), JNull},
        name \in {Absent, JStr("Sprint 4"), JStr("Sprint 5"), JStr(""),
                  JNull},
        comment \in {Absent, JStr(""), JStr("fine")},
        date \in {Absent, JStr("")},
        lesson \in {Absent, JStr("")}}

TranslateInit ==
    /\ Idle
    /\ call \in {NewCall("parse_status", h) : h \in AnyItems}

\* parse_status(homework): the function reads its argument and the table
\* and assigns nothing
CallParseStatus ==
    /\ pc = "call"
    /\ call.fn = "parse_status"
    /\ ~call.done
    /\ call' = [call EXCEPT !.done = TRUE,
                            !.result = parse_status(call.arg)]
    /\ UNCHANGED <<PRACTICUM_TOKEN, TELEGRAM_TOKEN, TELEGRAM_CHAT_ID,
                   pc, exit_code, timestamp, last_error, response, idx,
                   error, cur, prev>>

TranslateSpec == TranslateInit /\ [][CallParseStatus]_vars

TypeOK ==
    /\ pc \in {"start", "exited", "fetch", "check", "items", "handler",
               "sleep", "crashed", "call"}
    /\ exit_code \in {0, 1}
    /\ timestamp \in Dates
    /\ idx \in 0..(MaxItems + 1)

(* ------------------------------ claims --------------------------------- *)

\* the cycle in progress has reached its sleep, or main was left
CycleOver == pc \in {"sleep", "crashed"}

\* the classes send_message is documented to swallow
Swallowed == {"ApiException", "RequestException"}

\* the last call of the cycle in progress
LastEvent == cur.trace[Len(cur.trace)]

\* a < b for two integer cursors
Less(a, b) == a.t = "int" /\ b.t = "int" /\ a.n < b.n

\* C1 as stated: when two consecutive cycles fail with the identical
\* failure message, exactly one failure notification is sent for the two
\* cycles; when the next failing cycle has a different message, it sends one.
C1_Original ==
    (pc = "sleep" /\ prev.exists /\ prev.failed /\ cur.failed)
        => IF cur.message = prev.message
              THEN prev.notes + FailureNotes(cur.trace) = 1
              ELSE FailureNotes(cur.trace) = 1

\* C1 amended: a failed cycle sends one failure notification when its
\* message differs from last_error as the cycle began and none otherwise;
\* so of two consecutive cycles failing with the identical message the
\* second sends none and the two send at most one, and a failing cycle
\* whose message differs from the previous failing cycle's sends one.
C1_Dedup ==
    /\ (pc = "sleep" /\ cur.failed)
          => FailureNotes(cur.trace)
                = IF cur.message # cur.le_before THEN 1 ELSE 0
    /\ (pc = "sleep" /\ prev.exists /\ prev.failed /\ cur.failed)
          => IF cur.message = prev.message
                THEN /\ FailureNotes(cur.trace) = 0
                     /\ prev.notes + FailureNotes(cur.trace) <= 1
                ELSE FailureNotes(cur.trace) = 1

\* two consecutive cycles failed alike: the first notified, the second not
C1_Witness ==
    /\ pc = "sleep" /\ prev.exists /\ prev.failed /\ cur.failed
    /\ cur.message = prev.message
    /\ prev.notes = 1 /\ FailureNotes(cur.trace) = 0

\* C2: in every cycle in which get_api_answer and check_response both
\* succeed, timestamp equals the response's current_date from then to the
\* end of the cycle, with empty homeworks and with a failing translation.
C2_CursorIsCurrentDate ==
    (cur.validated /\ pc \in {"items", "handler", "sleep", "crashed"})
        => timestamp = response.current_date

\* a cycle ended after a translation failed, the cursor moved to a new date
C2_Witness ==
    /\ pc = "sleep" /\ cur.validated /\ cur.failed
    /\ \E i \in 1..Len(cur.trace) :
          cur.trace[i].op = "parse_status" /\ cur.trace[i].out = "raised"
    /\ timestamp = response.current_date
    /\ timestamp # cur.from_date

\* C3 as stated: the value of timestamp after a cycle is never smaller than
\* its value before the cycle.
C3_Original == CycleOver => ~Less(timestamp, cur.from_date)

\* C3 amended: timestamp is rolled back only by the remote source: a cycle
\* whose fetch or validation fails leaves it unchanged, and it is smaller
\* after a cycle than before only when the accepted response carried a
\* current_date smaller than the cursor the cycle began with.
C3_RolledBackOnlyBySource ==
    (pc \in {"check", "items", "handler", "sleep", "crashed"})
        => /\ ~cur.validated => timestamp = cur.from_date
           /\ Less(timestamp, cur.from_date)
                 => cur.validated /\ Less(response.current_date, cur.from_date)

\* a cycle ended with the cursor below the value it began with
C3_Witness ==
    pc = "sleep" /\ cur.validated /\ Less(timestamp, cur.from_date)

Rank ==
    CASE pc = "fetch" -> MaxItems + 5
      [] pc = "check" -> MaxItems + 4
      [] pc = "items" -> Len(response.homeworks.items) - idx + 3
      [] pc = "handler" -> 1
      [] OTHER -> 0

C6_LastErrorFrame ==
    [][/\ last_error' # last_error
             => /\ pc = "handler"
                /\ cur'.failed
                /\ cur'.message # last_error
                /\ last_error' = cur'.message
       /\ (pc = "handler" /\ cur'.failed /\ cur'.message = last_error)
             => cur'.trace = cur.trace /\ last_error' = last_error
       /\ (pc' = "sleep" /\ ~cur'.failed) => last_error' = cur'.le_before]_vars

\* a failure recurs right after a successful cycle with the message
\* last_error holds, and no notification is sent
C6_Witness ==
    /\ pc = "sleep" /\ cur.failed
    /\ prev.exists /\ ~prev.failed
    /\ cur.message = cur.le_before /\ last_error = cur.le_before
    /\ FailureNotes(cur.trace) = 0

\* the endpoint returned a status code other than 200 in the cycle
NonSuccess ==
    /\ cur.trace # <<>>
    /\ cur.trace[1].op = "get_api_answer"
    /\ cur.trace[1].arg \notin {"", "200"}

\* C7 as stated: whenever the endpoint returns a non-success status code
\* in a cycle, get_api_answer raises EndpointUnavailableError, one failure
\* notification is sent for that cycle, and the loop continues.
C7_Original ==
    (NonSuccess /\ CycleOver)
        => /\ cur.trace[1].exc = "EndpointUnavailableError"
           /\ FailureNotes(cur.trace) = 1
           /\ pc = "sleep"

\* C7 amended: whenever the endpoint returns a non-success status code,
\* get_api_answer raises EndpointUnavailableError naming the endpoint and
\* the code and the cycle fails with it; one failure notification is sent
\* when the message differs from last_error and none when it equals it;
\* the loop goes on to its sleep unless the delivery of that notification
\* raises an exception send_message lets through.
C7_Unavailable ==
    NonSuccess
        => /\ cur.trace[1].out = "raised"
           /\ cur.trace[1].exc = "EndpointUnavailableError"
           /\ pc \in {"handler", "sleep", "crashed"}
           /\ pc = "handler"
                 => Len(cur.trace) = 1
                    /\ error.type = "EndpointUnavailableError"
           /\ CycleOver
                 => /\ cur.failed
                    /\ cur.message
                          = "Failure in the program's work: Endpoint "
                            \o ENDPOINT \o " is unavailable. "
                            \o "API response code: " \o cur.trace[1].arg
                    /\ FailureNotes(cur.trace)
                          = IF cur.message # cur.le_before THEN 1 ELSE 0
                    /\ pc = "crashed"
                          <=> (Len(cur.trace) = 2
                               /\ cur.trace[2].out = "raised")

\* a 503 cycle ended in its sleep with one failure notification
C7_Witness ==
    /\ NonSuccess /\ pc = "sleep"
    /\ cur.trace[1].arg = "503"
    /\ FailureNotes(cur.trace) = 1

\* the fields of a call that do not depend on how it ended
Shape(e) == <<e.op, e.k, e.arg, e.why>>

\* the homeworks of the response of the cycle in progress
Homeworks == response.homeworks.items

\* calls 2j+1 and 2j+2 of the cycle are the translation of item j and the
\* status notification of its message
ItemDone(j) ==
    /\ Len(cur.trace) >= 2 * j + 2
    /\ cur.trace[2 * j + 1].op = "parse_status"
    /\ cur.trace[2 * j + 1].k = j
    /\ cur.trace[2 * j + 1].out = "returned"
    /\ Shape(cur.trace[2 * j + 2])
          = <<"send_message", j, parse_status(Homeworks[j]).value, "status">>
    /\ cur.trace[2 * j + 1].arg = cur.trace[2 * j + 2].arg

\* the calls of the cycle in which parse_status raised
ParseFailures ==
    {i \in 1..Len(cur.trace) :
        cur.trace[i].op = "parse_status" /\ cur.trace[i].out = "raised"}

\* C8: a translation failure for the item at position k aborts the rest of
\* the cycle's items: the items before k have been translated and notified
\* in order, no call follows for an item at k or after it, and the failure
\* goes to the cycle's one failure handler.
C8_TranslationFailureAborts ==
    ParseFailures # {}
        => /\ Cardinality(ParseFailures) = 1
           /\ LET i == CHOOSE i \in ParseFailures : TRUE
                  k == cur.trace[i].k
              IN  /\ i = 2 * k + 1
                  /\ \A j \in 1..(k - 1) : ItemDone(j)
                  /\ \A m \in 1..Len(cur.trace) :
                        m > i => /\ m = i + 1
                                 /\ cur.trace[m].op = "send_message"
                                 /\ cur.trace[m].why = "failure"
                  /\ pc \in {"handler", "sleep", "crashed"}
                  /\ pc = "handler" => error = parse_status(Homeworks[k]).exc
                  /\ CycleOver
                        => /\ cur.failed
                           /\ cur.message = "Failure in the program's work: "
                                 \o parse_status(Homeworks[k]).exc.text
                           /\ FailureNotes(cur.trace) <= 1

\* the first of two items failed to translate: the second, which
\* translates, was left alone and the cycle ended with one failure
\* notification
C8_Witness ==
    /\ pc = "sleep" /\ Len(Homeworks) = 2
    /\ ParseFailures = {3}
    /\ ~parse_status(Homeworks[2]).raised
    /\ Len(cur.trace) = 4
    /\ cur.trace[4].why = "failure"

\* every item of the accepted response translates
AllTranslate ==
    cur.validated /\ \A j \in 1..Len(Homeworks) : ~parse_status(Homeworks[j]).raised

\* the status notifications of the cycle in which bot.send_message raised
\* an exception send_message does not swallow
ForeignRaises ==
    {i \in 1..Len(cur.trace) :
        /\ cur.trace[i].op = "send_message" /\ cur.trace[i].why = "status"
        /\ cur.trace[i].exc \notin Swallowed \cup {""}}

Missing(v) == v = <<>> \/ v = <<"">>

NMissing ==
    Cardinality({i \in 1..3 :
        Missing(<<PRACTICUM_TOKEN, TELEGRAM_TOKEN, TELEGRAM_CHAT_ID>>[i])})

\* C10: check_tokens raises TokenNotFoundError exactly when at least one
\* of the three credentials is absent or empty, with one message line per
\* missing credential; main then exits with status 1 before any fetch, any
\* notification and any cycle; otherwise the loop runs with all three set.
C10_CredentialGate ==
    LET lines == TokenMsgs(PRACTICUM_TOKEN, TELEGRAM_TOKEN, TELEGRAM_CHAT_ID)
    IN  /\ pc = "exited"
              => /\ NMissing > 0
                 /\ exit_code = 1
                 /\ error.type = "TokenNotFoundError"
                 /\ Len(lines) = NMissing
                 /\ Cardinality({lines[i] : i \in 1..Len(lines)}) = NMissing
                 /\ error.text = Join("\n", lines)
                 /\ cur.trace = <<>>
                 /\ ~prev.exists
                 /\ response = NoPayload
        /\ pc \notin {"start", "exited"}
              => NMissing = 0 /\ exit_code = 0

\* main exited with two of the three credentials missing, one of them empty
C10_Witness ==
    /\ pc = "exited" /\ exit_code = 1
    /\ NMissing = 2 /\ TELEGRAM_TOKEN = <<"">>

\* C11: check_response fails exactly for the malformed payloads: a payload
\* that is not a dict (TypeError), one without homeworks or without
\* current_date (KeyError), one whose homeworks is not a list (TypeError);
\* it accepts every other payload and leaves the payload as it was. With
\* several defects the kind reported is that of the first test in the
\* order not a dict, no homeworks, no current_date, homeworks not a list.
C11_RejectsMalformed ==
    (call.fn = "check_response" /\ call.done)
        => LET p == call.given
               r == call.result
           IN  /\ call.arg = call.given
               /\ r.raised <=> \/ ~p.isdict
                               \/ "homeworks" \notin p.has
                               \/ "current_date" \notin p.has
                               \/ ~p.homeworks.islist
               /\ ~p.isdict
                     => r.exc = Exc("TypeError", "API response is not a dict")
               /\ (p.isdict /\ "homeworks" \notin p.has)
                     => r.exc = Exc("KeyError",
                           "'API response lacks the key \"homeworks\"'")
               /\ (p.isdict /\ "homeworks" \in p.has
                     /\ "current_date" \notin p.has)
                     => r.exc = Exc("KeyError",
                           "'API response lacks the key \"current_date\"'")
               /\ (p.isdict /\ p.has = BothKeys /\ ~p.homeworks.islist)
                     => r.exc = Exc("TypeError",
                           "Value under the key \"homeworks\" is not a list")
               /\ ~r.raised => r.exc = NoExc

\* a dict without current_date whose homeworks is not a list was reported
\* as lacking current_date
C11_Witness ==
    /\ call.fn = "check_response" /\ call.done
    /\ call.given.isdict /\ call.given.has = {"homeworks"}
    /\ ~call.given.homeworks.islist
    /\ call.result.raised /\ call.result.exc.type = "KeyError"

\* the item parse_status was called with, once the call has returned
Translated == call.fn = "parse_status" /\ call.done

\* C12: every item that lacks at least one of the six required keys makes
\* parse_status raise KeyError, and the keys the error reports are exactly
\* the required keys absent from the item, whatever the values of the keys
\* that are present: the text is the message followed by the names of the
\* absent keys and by nothing that depends on a value, no other set of
\* names has the same text, and a single absent key is reported under its
\* own name.
C12_NamesMissingKeys ==
    (Translated /\ ~(required_keys \subseteq DOMAIN call.given))
        => LET absent == required_keys \ DOMAIN call.given
               r == call.result
           IN  /\ r.raised
               /\ r.exc.type = "KeyError"
               /\ r.exc.text = "\"homework lacks the keys: "
                               \o SetRepr(absent) \o "\""
               /\ \A S \in SUBSET required_keys :
                     SetRepr(S) = SetRepr(absent) => S = absent
               /\ \A k \in required_keys :
                     absent = {k}
                        => r.exc.text = "\"homework lacks the keys: {'"
                                        \o k \o "'}\""
               /\ call.arg = call.given

\* an item without status and without lesson_name, its other keys holding
\* an empty name and a second id, was given and the two names were reported
C12_Witness ==
    /\ Translated
    /\ DOMAIN call.given = required_keys \ {"status", "lesson_name"}
    /\ call.given["homework_name"] = JStr("")
    /\ call.given["id"] = JInt(2)
    /\ call.result.exc.text
         = "\"homework lacks the keys: {'status', 'lesson_name'}\""

\* the item given to parse_status holds all six required keys
Complete == required_keys \subseteq DOMAIN call.given

\* C13 as stated: every item whose homework_name is empty makes parse_status
\* raise ValueError, and the error references the item's id.
C13_Original ==
    (/\ Translated
     /\ "homework_name" \in DOMAIN call.given
     /\ call.given["homework_name"] = JStr(""))
        => /\ call.result.raised
           /\ call.result.exc.type = "ValueError"

\* C13: every item that holds all six required keys and whose homework_name
\* is empty or null makes parse_status raise ValueError, whatever its
\* status, and the text of the error carries the item's id; an item with an
\* empty homework_name that lacks a required key raises KeyError instead.
C13_EmptyNameOfCompleteItem ==
    (/\ Translated
     /\ "homework_name" \in DOMAIN call.given
     /\ call.given["homework_name"] \in {JStr(""), JNull})
        => IF Complete
              THEN /\ call.result.raised
                   /\ call.result.exc.type = "ValueError"
                   /\ call.result.exc.text
                        = "Name of the homework with id="
                          \o ToString(call.given["id"].n)
                          \o " is not given"
              ELSE /\ call.result.raised
                   /\ call.result.exc.type = "KeyError"

\* a complete item with the empty name, the second id and a status outside
\* the table was refused for its name
C13_Witness ==
    /\ Translated
    /\ Complete
    /\ call.given["homework_name"] = JStr("")
    /\ call.given["id"] = JInt(2)
    /\ call.given["status"] = JStr("lost")
    /\ call.result.exc
         = Exc("ValueError", "Name of the homework with id=2 is not given")

\* the status of the given item is one of the keys of HOMEWORK_VERDICTS
KnownStatus ==
    /\ call.given["status"].t = "str"
    /\ call.given["status"].s \in {"approved", "reviewing", "rejected"}

\* C14, read for the items that reach the status test (all six required
\* keys present, homework_name non-empty): every such item whose status is
\* not one of approved, reviewing, rejected makes parse_status raise
\* ValueError, and the error quotes the unrecognized status.
C14_Original ==
    (/\ Translated
     /\ Complete
     /\ Truthy(call.given["homework_name"])
     /\ ~KnownStatus)
        => /\ call.result.raised
           /\ call.result.exc.type = "ValueError"
           /\ call.result.exc.text
                = "Unexpected homework status \""
                  \o PyStr(call.given["status"]) \o "\""

\* a complete, named item whose status is a list was refused with the
\* TypeError of the membership test
C14_Witness ==
    /\ Translated
    /\ Complete
    /\ call.given["homework_name"] = JStr("Sprint 5")
    /\ call.given["status"] = JList("[]")
    /\ call.result.exc = Exc("TypeError", "unhashable type: 'list'")

\* a complete item with a non-empty name and a status of the table
Translatable(h) ==
    /\ required_keys \subseteq DOMAIN h
    /\ Truthy(h["homework_name"])
    /\ h["status"].t = "str"
    /\ h["status"].s \in {"approved", "reviewing", "rejected"}

\* C15: for every item that has all six required keys, a non-empty
\* homework_name and a status of the Verdict Table, parse_status returns
\* the template filled with the item's homework_name and the phrase the
\* table holds for its status; every other item with the same
\* homework_name and status yields the same message, and the call leaves
\* the item as it was given (the table is a definition nothing assigns).
C15_TemplateOfNameAndStatus ==
    (Translated /\ Translatable(call.given))
        => LET h == call.given
               r == call.result
           IN  /\ ~r.raised
               /\ r.exc = NoExc
               /\ r.value = "Status of the check of the work \""
                             \o h["homework_name"].s \o "\" changed. "
                             \o HOMEWORK_VERDICTS[h["status"].s]
               /\ \A g \in AnyItems :
                     (/\ Translatable(g)
                      /\ g["homework_name"] = h["homework_name"]
                      /\ g["status"] = h["status"])
                        => parse_status(g) = r
               /\ call.arg = call.given

\* the item of the scenario (id 1, approved, "Sprint 4") was translated
C15_Witness ==
    /\ Translated
    /\ call.given = Item(1, "approved", "Sprint 4")
    /\ call.result = Return("Status of the check of the work \"Sprint 4\""
                            \o " changed. Work checked: the reviewer liked"
                            \o " everything. Hooray!")

\* C16 as stated: the Time Cursor is an integer in every state of the loop:
\* whatever response check_response accepts, the value stored into
\* timestamp and sent as from_date by the next fetch is an integer.
C16_Original ==
    /\ pc \in {"fetch", "check", "items", "handler", "sleep", "crashed"}
          => timestamp.t = "int"
    /\ (Len(cur.trace) > 0 /\ cur.trace[1].op = "get_api_answer")
          => cur.from_date.t = "int"

\* a fetch was made with from_date null, the current_date of the response
\* the cycle before had accepted
C16_Witness ==
    /\ pc = "check"
    /\ prev.exists /\ ~prev.failed
    /\ cur.from_date = JNull
    /\ timestamp = JNull
    /\ cur.trace[1].op = "get_api_answer"

\* C17: a failed cycle that reaches its sleep leaves last_error equal to
\* the failure message formatted in the cycle, whether a notification was
\* attempted for it or not; the handler attempts one failure notification
\* when the message differs from the value last_error had as the cycle
\* began and none when it is equal, so never more than one per cycle, and a
\* cycle that has not failed attempts none.
C17_RemembersEveryFailure ==
    /\ (pc = "sleep" /\ cur.failed) => last_error = cur.message
    /\ (CycleOver /\ cur.failed)
          => /\ cur.message # cur.le_before <=> FailureNotes(cur.trace) = 1
             /\ cur.message = cur.le_before <=> FailureNotes(cur.trace) = 0
    /\ ~cur.failed => FailureNotes(cur.trace) = 0
    /\ FailureNotes(cur.trace) <= 1
    /\ pc = "handler" => last_error = cur.le_before

\* a cycle failed with the message of the failure before it: no
\* notification was attempted and last_error holds the message; the cycle
\* before had attempted one
C17_Witness ==
    /\ pc = "sleep" /\ cur.failed
    /\ prev.exists /\ prev.failed /\ prev.notes = 1
    /\ cur.message = cur.le_before
    /\ FailureNotes(cur.trace) = 0
    /\ last_error = cur.message
    /\ cur.trace[Len(cur.trace)].op = "check_response"

\* the calls of parse_status and send_message among the calls of a trace
ItemCalls(trace) ==
    {i \in 1..Len(trace) : trace[i].op \in {"parse_status", "send_message"}}

\* C18: inside the loop timestamp is written by one step only, the one in
\* which check_response returns: it is written then, with the response's
\* current_date, while no item of the response has been translated or
\* notified; a step in which get_api_answer or check_response raises, and
\* the handler's step after it, leave timestamp as it is, so the cycle
\* after a cycle that was not validated begins with the same from_date.
C18_CursorWrittenOnceValidated ==
    [][/\ (timestamp' # timestamp /\ pc # "start")
             => pc = "check" /\ ~cur.validated /\ cur'.validated
       /\ (pc = "check" /\ cur'.validated)
             => /\ timestamp' = response.current_date
                /\ cur'.trace[Len(cur'.trace)].op = "check_response"
                /\ cur'.trace[Len(cur'.trace)].out = "returned"
                /\ ItemCalls(cur'.trace) = {}
       /\ (pc \in {"fetch", "check"} /\ pc' \in {"handler", "crashed"})
             => timestamp' = timestamp /\ ~cur'.validated
       /\ (ItemCalls(cur'.trace) # ItemCalls(cur.trace) /\ pc = "items")
             => cur.validated /\ timestamp' = timestamp
       /\ (pc = "sleep" /\ pc' = "fetch")
             => /\ cur'.from_date = timestamp
                /\ ~cur.validated => cur'.from_date = cur.from_date]_vars

\* after a cycle that moved the cursor to 1, a cycle whose validation
\* failed has reached its sleep with the cursor still 1
C18_Witness ==
    /\ pc = "sleep" /\ cur.failed /\ ~cur.validated
    /\ prev.exists /\ ~prev.failed
    /\ Len(cur.trace) >= 2
    /\ cur.trace[2].op = "check_response" /\ cur.trace[2].out = "raised"
    /\ cur.from_date = JInt(1)
    /\ timestamp = JInt(1)

\* C19: a failure notification whose delivery fails inside send_message
\* still ends with last_error set to the undelivered message; and a cycle
\* that fails with the message last_error holds makes no delivery attempt,
\* also when the notification of that message was not delivered: the cycle
\* after the swallowed notification, failing alike, sends nothing and
\* leaves last_error as it is for the cycles after it.
C19_UndeliveredIsRemembered ==
    [][/\ (pc = "handler" /\ cur'.trace # cur.trace
           /\ cur'.trace[Len(cur'.trace)].out = "swallowed")
             => /\ pc' = "sleep"
                /\ cur'.trace[Len(cur'.trace)].arg = FailureMessage(error)
                /\ last_error' = FailureMessage(error)
       /\ (pc = "handler" /\ prev.swallowed
           /\ FailureMessage(error) = prev.message)
             => /\ cur'.trace = cur.trace
                /\ last_error' = last_error
                /\ pc' = "sleep"
       /\ (pc = "sleep" /\ pc' = "fetch" /\ prev.swallowed
           /\ cur.failed /\ cur.message = prev.message)
             => /\ FailureNotes(cur.trace) = 0
                /\ last_error' = prev.message]_vars

\* the failure notification of a cycle was swallowed, and the next cycle
\* failed with the same message and attempted no delivery
C19_Witness ==
    /\ pc = "sleep" /\ cur.failed
    /\ prev.exists /\ prev.failed /\ prev.notes = 1 /\ prev.swallowed
    /\ cur.message = prev.message
    /\ last_error = cur.message
    /\ \A i \in 1..Len(cur.trace) : cur.trace[i].op # "send_message"

====
